---- MODULE Spec2Model ----
(***************************************************************************)
(* AirBnB clone v3: the REST views (api/v1/views) over the storage         *)
(* facade, with the two engines (file and relational) behind it.           *)
(*                                                                         *)
(* Ids are uuid strings in the program; here they are small positive       *)
(* numbers and 0 stands for None / a missing key.  A composite key         *)
(* "<TypeName>.<id>" is the token sequence <<TypeName, ".", id>>.          *)
(***************************************************************************)
EXTENDS Integers, Sequences, FiniteSets, TLC

VARIABLES
    storage_t,   \* models.storage_t: "file" or "db", fixed at process start
    objects,     \* FileStorage.__objects / the DBStorage session's view
    file,        \* the JSON snapshot of the file engine
    db,          \* the committed rows of the relational engine
    conflict,    \* the session holds a new instance whose primary key is taken
    resp,        \* the last completed call: operation, arguments, status code
    threads      \* the requests in flight: where each thread of the server is

vars == <<storage_t, objects, file, db, conflict, resp, threads>>

----------------------------------------------------------------------------
(* Bounds *)

MaxStates == 1
MaxCities == 2
MaxUsers == 1
MaxPlaces == 1
MaxReviews == 1
MaxAmenities == 1
MaxEngineObjs == 2
MaxThreads == 2

StateIds == 1..MaxStates
CityIds == 1..MaxCities
UserIds == 1..MaxUsers
PlaceIds == 1..MaxPlaces
ReviewIds == 1..MaxReviews
AmenityIds == 1..MaxAmenities
Threads == 1..MaxThreads

\* The ids a request may name for an entity of a class.
IdsOf(cls) ==
    CASE cls = "State" -> StateIds
      [] cls = "City" -> CityIds
      [] cls = "User" -> UserIds
      [] cls = "Place" -> PlaceIds
      [] cls = "Review" -> ReviewIds
      [] cls = "Amenity" -> AmenityIds

Opt(ids) == ids \cup {0}

----------------------------------------------------------------------------
(* Entity model *)

classes == {"Amenity", "City", "Place", "Review", "State", "User"}

Names == {"a"}
Texts == {"t"}
Emails == {"e"}
Passwords == {"p"}

\* datetime.utcnow() at the construction of an entity, and a later instant
\* that a request body may carry; the clock itself is not modelled.
Now == 1
Later == Now + 1

\* An entity with every attribute at its class default.
Blank ==
    [cls |-> "NoneType", id |-> 0, name |-> "", text |-> "", email |-> "",
     password |-> "", state_id |-> 0, city_id |-> 0, user_id |-> 0,
     place_id |-> 0, amenity_ids |-> <<>>, amenities |-> <<>>,
     created_at |-> 0]

\* Python's None as the result of a lookup.
NoneObj == Blank

\* request.get_json(silent=True): json = FALSE is a body that is not JSON
\* (None); a missing key has value 0 or "".
EmptyBody ==
    [json |-> TRUE, id |-> 0, name |-> "", text |-> "", email |-> "",
     password |-> "", state_id |-> 0, city_id |-> 0, user_id |-> 0,
     place_id |-> 0, created_at |-> 0]

NotJSON == [EmptyBody EXCEPT !.json = FALSE]

\* A thread of the server that serves no request.
Idle == [pc |-> "idle", place |-> NoneObj, amenity |-> NoneObj]

\* The truth value of `data`: None and the empty dictionary are falsy.
Truthy(data) == data.json /\ data # EmptyBody

\* BaseModel.__init__(**kwargs): every key of the mapping becomes an
\* attribute; without an explicit id a fresh uuid is assigned.
BaseModel_init(cls, data, uuid) ==
    [Blank EXCEPT !.cls = cls,
                  !.id = IF data.id # 0 THEN data.id ELSE uuid,
                  !.name = data.name, !.text = data.text,
                  !.email = data.email, !.password = data.password,
                  !.state_id = data.state_id, !.city_id = data.city_id,
                  !.user_id = data.user_id, !.place_id = data.place_id,
                  !.created_at = IF data.created_at # 0 THEN data.created_at
                                 ELSE Now]

\* The composite key "<TypeName>.<id>" of an entity.
MakeKey(cls, id) == <<cls, ".", id>>

\* Mutant of KeyOf: the key is built from the base type's name.
KeyOf_base(e) == MakeKey("BaseModel", e.id)

KeyOf(e) == MakeKey(e.cls, e.id)

\* key.split('.')[0] and key.split('.')[1]
KeyClass(k) == k[1]
KeyId(k) == k[3]

EmptyMap == [k \in {} |-> Blank]

Restrict(m, ks) == [k \in ks |-> m[k]]

\* Elements of a list, and a list without the first occurrence of x
\* (list.remove).
Range(s) == {s[i] : i \in 1..Len(s)}
RemoveAt(s, i) == [j \in 1..(Len(s) - 1) |-> IF j < i THEN s[j] ELSE s[j + 1]]
ListRemove(s, x) ==
    RemoveAt(s, CHOOSE i \in 1..Len(s) : s[i] = x /\ \A j \in 1..(i - 1) : s[j] # x)
ListWithout(s, x) == SelectSeq(s, LAMBDA y : y # x)

----------------------------------------------------------------------------
(* Storage engines: queries *)

\* Mutant of all_in: the class filter is dropped.
all_in_unfiltered(objs, cls) == objs

\* storage.all(cls): the mapping of composite key to entity, of one class or
\* (cls = "") of every class.
all_in(objs, cls) ==
    Restrict(objs, {k \in DOMAIN objs : cls = "" \/ objs[k].cls = cls})

\* storage.get(cls, id): the entity of that class and id, or None.
get_in(objs, cls, id) ==
    LET a == all_in(objs, cls)
        m == {k \in DOMAIN a : a[k].id = id}
    IN IF cls \notin classes \/ m = {} THEN NoneObj ELSE a[CHOOSE k \in m : TRUE]

\* storage.count(cls)
count_in(objs, cls) == Cardinality(DOMAIN all_in(objs, cls))

all(cls) == all_in(objects, cls)
get(cls, id) == get_in(objects, cls, id)
count(cls) == count_in(objects, cls)

Values(m) == {m[k] : k \in DOMAIN m}

----------------------------------------------------------------------------
(* Relationships *)

\* State.cities: the Cities whose state_id is the State's id.
State_cities(objs, state_id) ==
    {c \in Values(all_in(objs, "City")) : c.state_id = state_id}

\* Mutant of City_places: the test on city_id is dropped.
City_places_all(objs, city_id) == Values(all_in(objs, "Place"))

\* City.places: the Places whose city_id is the City's id.
City_places(objs, city_id) ==
    {p \in Values(all_in(objs, "Place")) : p.city_id = city_id}

\* Place.reviews: the Reviews whose place_id is the Place's id.
Place_reviews(objs, place_id) ==
    {r \in Values(all_in(objs, "Review")) : r.place_id = place_id}

\* Place.amenities (getter): in the relational engine the ids of the join
\* rows, in the file engine the stored Amenities whose id is in amenity_ids.
Place_amenities(objs, place) ==
    IF storage_t = "db"
    THEN Range(place.amenities)
    ELSE {a.id : a \in {x \in Values(all_in(objs, "Amenity")) :
                          x.id \in Range(place.amenity_ids)}}

----------------------------------------------------------------------------
(* Storage engines: persistence *)

\* datetime.isoformat() and datetime.strptime(value, time): a timestamp as
\* the string the snapshot carries, and back.
isoformat(t) == <<"T", t>>
strptime(str) == str[2]

\* Mutant of to_dict: the password is left out of the field mapping.
to_dict_no_password(e) ==
    [__class__ |-> e.cls, id |-> e.id, name |-> e.name, text |-> e.text,
     email |-> e.email, password |-> "", state_id |-> e.state_id,
     city_id |-> e.city_id, user_id |-> e.user_id, place_id |-> e.place_id,
     amenity_ids |-> e.amenity_ids, amenities |-> e.amenities,
     created_at |-> isoformat(e.created_at)]

\* BaseModel.to_dict(): the field mapping plus the type discriminator.
to_dict(e) ==
    [__class__ |-> e.cls, id |-> e.id, name |-> e.name, text |-> e.text,
     email |-> e.email, password |-> e.password, state_id |-> e.state_id,
     city_id |-> e.city_id, user_id |-> e.user_id, place_id |-> e.place_id,
     amenity_ids |-> e.amenity_ids, amenities |-> e.amenities,
     created_at |-> isoformat(e.created_at)]

\* classes[d["__class__"]](**d): the entity rebuilt from its field mapping.
from_dict(d) ==
    [cls |-> d.__class__, id |-> d.id, name |-> d.name, text |-> d.text,
     email |-> d.email, password |-> d.password, state_id |-> d.state_id,
     city_id |-> d.city_id, user_id |-> d.user_id, place_id |-> d.place_id,
     amenity_ids |-> d.amenity_ids, amenities |-> d.amenities,
     created_at |-> strptime(d.created_at)]

NoFile == [exists |-> FALSE, json |-> [k \in {} |-> to_dict(Blank)]]

\* FileStorage.save(): the whole mapping written as one document.
file_dump(objs) ==
    [exists |-> TRUE, json |-> [k \in DOMAIN objs |-> to_dict(objs[k])]]

\* FileStorage.reload(): the mapping rebuilt from the snapshot; a missing
\* file is not an error.
file_load(f) ==
    IF f.exists THEN [k \in DOMAIN f.json |-> from_dict(f.json[k])] ELSE EmptyMap

\* The constraints the relational schema declares: foreign keys name
\* existing rows and the required columns are not null.
DBValid(objs) ==
    LET has(cls, id) == get_in(objs, cls, id) # NoneObj
    IN \A k \in DOMAIN objs :
         LET e == objs[k]
         IN /\ e.cls = "State" => e.name # ""
            /\ e.cls = "Amenity" => e.name # ""
            /\ e.cls = "City" => e.name # "" /\ has("State", e.state_id)
            /\ e.cls = "User" => e.email # "" /\ e.password # ""
            /\ e.cls = "Place" =>
                 /\ e.name # ""
                 /\ has("City", e.city_id)
                 /\ has("User", e.user_id)
                 /\ \A a \in Range(e.amenities) : has("Amenity", a)
            /\ e.cls = "Review" =>
                 /\ e.text # ""
                 /\ has("Place", e.place_id)
                 /\ has("User", e.user_id)

\* storage.new(obj): the file engine assigns __objects[key]; the session of
\* the relational engine stages the instance.
new_in(objs, e) == (KeyOf(e) :> e) @@ objs

\* The rows the relational schema removes with e: State -> City -> Place ->
\* Review.
DBCascade(objs, e) ==
    LET cities == IF e.cls = "State" THEN State_cities(objs, e.id)
                  ELSE IF e.cls = "City" THEN {e} ELSE {}
        places == UNION {City_places(objs, c.id) : c \in cities}
                    \cup (IF e.cls = "Place" THEN {e} ELSE {})
        reviews == UNION {Place_reviews(objs, p.id) : p \in places}
    IN {KeyOf(x) : x \in {e} \cup cities \cup places \cup reviews}

\* The join rows of a deleted Amenity go with it.
unlink_amenity(objs, e) ==
    [k \in DOMAIN objs |->
        IF e.cls = "Amenity" /\ objs[k].cls = "Place"
        THEN [objs[k] EXCEPT !.amenities = ListWithout(@, e.id)]
        ELSE objs[k]]

db_delete(objs, e) ==
    unlink_amenity(Restrict(objs, DOMAIN objs \ DBCascade(objs, e)), e)

\* Mutant of file_delete: the entry stays.
file_delete_keep(objs, e) == objs

\* FileStorage.delete(obj): the entry of the entity leaves the mapping.
file_delete(objs, e) == Restrict(objs, DOMAIN objs \ {KeyOf(e)})

\* storage.delete(obj)
delete_in(objs, e) ==
    IF storage_t = "db" THEN db_delete(objs, e) ELSE file_delete(objs, e)

----------------------------------------------------------------------------
(* Requests: the common end of a handler *)

\* The body of a search: json = FALSE is a body that is not JSON; a missing
\* key and an empty list are the same to data.get(key).
NoQuery == [json |-> FALSE, states |-> <<>>, cities |-> <<>>, amenities |-> <<>>]

Response(op, cls, id, arg, code, err) ==
    [op |-> op, cls |-> cls, id |-> id, arg |-> arg, code |-> code, err |-> err,
     query |-> NoQuery, result |-> <<>>]

\* storage.save() on the mapping objs2 the handler built, the response, and
\* storage.close() at the teardown of the request.  clash: the handler
\* staged a new instance whose primary key is taken.
Commit(op, cls, id, arg, code, objs2, clash) ==
    /\ IF storage_t = "db"
       THEN IF clash \/ ~DBValid(objs2)
            THEN /\ objects' = db
                 /\ UNCHANGED <<db, file>>
                 /\ resp' = Response(op, cls, id, arg, 500, "IntegrityError")
            ELSE /\ objects' = objs2
                 /\ db' = objs2
                 /\ UNCHANGED file
                 /\ resp' = Response(op, cls, id, arg, code, "")
       ELSE /\ objects' = objs2
            /\ file' = file_dump(objs2)
            /\ UNCHANGED db
            /\ resp' = Response(op, cls, id, arg, code, "")
    /\ conflict' = FALSE
    /\ UNCHANGED <<storage_t, threads>>

\* abort(code): nothing is saved; the teardown closes the storage.
abort(op, cls, id, arg, code) ==
    /\ resp' = Response(op, cls, id, arg, code, "")
    /\ objects' = (IF storage_t = "db" THEN db ELSE objects)
    /\ conflict' = FALSE
    /\ UNCHANGED <<storage_t, file, db, threads>>

\* Model(**data).save() on a new instance: storage.new, storage.save.  arg
\* is the id of the URL under which the instance is created, if any.
model_save(op, e, arg, code) ==
    Commit(op, e.cls, e.id, arg, code,
           IF storage_t = "db" /\ KeyOf(e) \in DOMAIN objects
           THEN objects ELSE new_in(objects, e),
           KeyOf(e) \in DOMAIN objects)

\* obj.save() on a stored instance whose attributes the handler has set.
model_update(op, e, arg, code) ==
    Commit(op, e.cls, e.id, arg, code, [objects EXCEPT ![KeyOf(e)] = e], FALSE)

\* uuid.uuid4(): an id no entity of the class has; unused when the body
\* carries an id.
Fresh(cls) ==
    {i \in IdsOf(cls) : MakeKey(cls, i) \notin
                    (DOMAIN objects \cup DOMAIN db \cup DOMAIN file.json)}
Uuid(cls, data, uuid) ==
    IF data.id # 0 THEN uuid = data.id ELSE uuid \in Fresh(cls)

\* Mutant of setattrs: no key is ignored.
setattrs_unprotected(e, data, ignored) ==
    LET str(old, v) == IF v # "" THEN v ELSE old
        num(old, v) == IF v # 0 THEN v ELSE old
    IN [e EXCEPT !.id = num(@, data.id),
                 !.name = str(@, data.name),
                 !.text = str(@, data.text),
                 !.email = str(@, data.email),
                 !.password = str(@, data.password),
                 !.state_id = num(@, data.state_id),
                 !.city_id = num(@, data.city_id),
                 !.user_id = num(@, data.user_id),
                 !.place_id = num(@, data.place_id),
                 !.created_at = num(@, data.created_at)]

\* for key, value in data.items(): if key not in ignored_keys: setattr(...)
setattrs(e, data, ignored) ==
    LET str(k, old, v) == IF v # "" /\ k \notin ignored THEN v ELSE old
        num(k, old, v) == IF v # 0 /\ k \notin ignored THEN v ELSE old
    IN [e EXCEPT !.id = num("id", @, data.id),
                 !.name = str("name", @, data.name),
                 !.text = str("text", @, data.text),
                 !.email = str("email", @, data.email),
                 !.password = str("password", @, data.password),
                 !.state_id = num("state_id", @, data.state_id),
                 !.city_id = num("city_id", @, data.city_id),
                 !.user_id = num("user_id", @, data.user_id),
                 !.place_id = num("place_id", @, data.place_id),
                 !.created_at = num("created_at", @, data.created_at)]

----------------------------------------------------------------------------
(* Request bodies *)

OptNames == Names \cup {""}

StateBodies ==
    {NotJSON} \cup
    {[EmptyBody EXCEPT !.id = i, !.name = n] : i \in Opt(StateIds), n \in OptNames}

AmenityBodies ==
    {NotJSON} \cup
    {[EmptyBody EXCEPT !.id = i, !.name = n] : i \in Opt(AmenityIds), n \in OptNames}

CityBodies ==
    {NotJSON} \cup
    {[EmptyBody EXCEPT !.id = i, !.name = n, !.state_id = s] :
        i \in Opt(CityIds), n \in OptNames, s \in Opt(StateIds)}

UserBodies ==
    {NotJSON} \cup
    {[EmptyBody EXCEPT !.id = i, !.email = m, !.password = w] :
        i \in Opt(UserIds), m \in Emails \cup {""}, w \in Passwords \cup {""}}

PlaceBodies ==
    {NotJSON} \cup
    {[EmptyBody EXCEPT !.id = i, !.name = n, !.city_id = c, !.user_id = u] :
        i \in Opt(PlaceIds), n \in OptNames, c \in Opt(CityIds), u \in Opt(UserIds)}

ReviewBodies ==
    {NotJSON} \cup
    {[EmptyBody EXCEPT !.id = i, !.text = t, !.place_id = p, !.user_id = u] :
        i \in Opt(ReviewIds), t \in Texts \cup {""}, p \in Opt(PlaceIds),
        u \in Opt(UserIds)}

\* An id no entity has and an email no User was created with: values a
\* PUT body may carry for a key the handlers ignore.
OtherId ==
    MaxStates + MaxCities + MaxUsers + MaxPlaces + MaxReviews + MaxAmenities + 1
OtherEmail == "other"

\* The body b of a PUT on an entity of class cls, carrying in addition the
\* keys id and created_at and the foreign keys (or email) of the class.
WithProtectedKeys(cls, b) ==
    [b EXCEPT !.id = OtherId,
              !.created_at = Later,
              !.email = IF cls = "User" THEN OtherEmail ELSE @,
              !.state_id = IF cls = "City" THEN OtherId ELSE @,
              !.city_id = IF cls = "Place" THEN OtherId ELSE @,
              !.user_id = IF cls \in {"Place", "Review"} THEN OtherId ELSE @,
              !.place_id = IF cls = "Review" THEN OtherId ELSE @]

\* The bodies of a PUT request: those of a POST, with or without the
\* protected keys.
PutBodies(cls, bodies) ==
    bodies \cup {WithProtectedKeys(cls, b) : b \in bodies \ {NotJSON}}

\* hashlib.md5(value).hexdigest()
md5(value) == IF value = "" THEN "" ELSE "md5_p"

----------------------------------------------------------------------------
(* views/states.py *)

delete_state(state_id) ==
    LET state == get("State", state_id)
    IN IF state # NoneObj
       THEN Commit("delete_state", "State", state_id, 0, 200,
                   delete_in(objects, state), FALSE)
       ELSE abort("delete_state", "State", state_id, 0, 404)

create_state(data, uuid) ==
    /\ Uuid("State", data, uuid)
    /\ IF Truthy(data) /\ data.name # ""
       THEN model_save("create_state", BaseModel_init("State", data, uuid), 0, 201)
       ELSE abort("create_state", "State", 0, 0, 400)

update_state(state_id, data) ==
    LET state == get("State", state_id)
        ignored_keys == {"id", "created_at", "updated_at"}
    IN IF state # NoneObj /\ Truthy(data)
       THEN model_update("update_state", setattrs(state, data, ignored_keys), 0, 200)
       ELSE IF state = NoneObj
            THEN abort("update_state", "State", state_id, 0, 404)
            ELSE abort("update_state", "State", state_id, 0, 400)

----------------------------------------------------------------------------
(* views/cities.py *)

delete_city(city_id) ==
    LET city == get("City", city_id)
    IN IF city # NoneObj
       THEN Commit("delete_city", "City", city_id, 0, 200,
                   delete_in(objects, city), FALSE)
       ELSE abort("delete_city", "City", city_id, 0, 404)

add_city(state_id, data, uuid) ==
    LET state == get("State", state_id)
    IN /\ Uuid("City", data, uuid)
       /\ IF Truthy(data) /\ data.name # "" /\ state # NoneObj
          THEN model_save("add_city",
                          BaseModel_init("City",
                                         [data EXCEPT !.state_id = state_id],
                                         uuid),
                          state_id, 201)
          ELSE IF state = NoneObj
               THEN abort("add_city", "City", 0, state_id, 404)
               ELSE abort("add_city", "City", 0, state_id, 400)

update_city(city_id, data) ==
    LET city == get("City", city_id)
        ignored_keys == {"created_at", "updated_at", "id", "state_id"}
    IN IF city # NoneObj /\ Truthy(data)
       THEN model_update("update_city", setattrs(city, data, ignored_keys), 0, 200)
       ELSE IF city = NoneObj
            THEN abort("update_city", "City", city_id, 0, 404)
            ELSE abort("update_city", "City", city_id, 0, 400)

----------------------------------------------------------------------------
(* views/amenities.py *)

delete_amenity(amenity_id) ==
    LET amenity == get("Amenity", amenity_id)
    IN IF amenity # NoneObj
       THEN Commit("delete_amenity", "Amenity", amenity_id, 0, 200,
                   delete_in(objects, amenity), FALSE)
       ELSE abort("delete_amenity", "Amenity", amenity_id, 0, 404)

create_amenity(data, uuid) ==
    /\ Uuid("Amenity", data, uuid)
    /\ IF Truthy(data) /\ data.name # ""
       THEN model_save("create_amenity", BaseModel_init("Amenity", data, uuid), 0, 201)
       ELSE abort("create_amenity", "Amenity", 0, 0, 400)

update_amenity(amenity_id, data) ==
    LET amenity == get("Amenity", amenity_id)
        ignored_keys == {"id", "created_at", "updated_at"}
    IN IF amenity # NoneObj /\ Truthy(data)
       THEN model_update("update_amenity", setattrs(amenity, data, ignored_keys), 0, 200)
       ELSE IF ~Truthy(data)
            THEN abort("update_amenity", "Amenity", amenity_id, 0, 400)
            ELSE abort("update_amenity", "Amenity", amenity_id, 0, 404)

----------------------------------------------------------------------------
(* views/users.py *)

delete_user(user_id) ==
    LET user == get("User", user_id)
    IN IF user # NoneObj
       THEN Commit("delete_user", "User", user_id, 0, 200,
                   delete_in(objects, user), FALSE)
       ELSE abort("delete_user", "User", user_id, 0, 404)

create_user(data, uuid) ==
    /\ Uuid("User", data, uuid)
    /\ IF Truthy(data) /\ data.email # "" /\ data.password # ""
       THEN model_save("create_user", BaseModel_init("User", data, uuid), 0, 201)
       ELSE abort("create_user", "User", 0, 0, 400)

update_user(user_id, data) ==
    LET user == get("User", user_id)
        ignore_keys == {"id", "created_at", "updated_at", "email"}
    IN IF user # NoneObj /\ Truthy(data)
       THEN model_update("update_user",
                         setattrs(user,
                                  [data EXCEPT !.password = md5(@)],
                                  ignore_keys),
                         0, 200)
       ELSE IF user = NoneObj
            THEN abort("update_user", "User", user_id, 0, 404)
            ELSE abort("update_user", "User", user_id, 0, 400)

----------------------------------------------------------------------------
(* views/places.py *)

delete_place(place_id) ==
    LET place == get("Place", place_id)
    IN IF place # NoneObj
       THEN Commit("delete_place", "Place", place_id, 0, 200,
                   delete_in(objects, place), FALSE)
       ELSE abort("delete_place", "Place", place_id, 0, 404)

\* Mutant of create_place: the city_id of the body is kept.
create_place_body_city(city_id, data, uuid) ==
    LET city == get("City", city_id)
        user == IF Truthy(data) THEN get("User", data.user_id) ELSE NoneObj
    IN /\ Uuid("Place", data, uuid)
       /\ IF city # NoneObj /\ user # NoneObj /\ Truthy(data) /\ data.name # ""
          THEN model_save("create_place", BaseModel_init("Place", data, uuid),
                          city_id, 201)
          ELSE abort("create_place", "Place", 0, city_id, 400)

create_place(city_id, data, uuid) ==
    LET city == get("City", city_id)
        user == IF Truthy(data) THEN get("User", data.user_id) ELSE NoneObj
    IN /\ Uuid("Place", data, uuid)
       /\ IF city # NoneObj /\ user # NoneObj /\ Truthy(data) /\ data.name # ""
          THEN model_save("create_place",
                          BaseModel_init("Place",
                                         [data EXCEPT !.city_id = city_id],
                                         uuid),
                          city_id, 201)
          ELSE IF Truthy(data) /\ data.name = ""
               THEN abort("create_place", "Place", 0, city_id, 400)
               ELSE IF Truthy(data) /\ data.user_id = 0
                    THEN abort("create_place", "Place", 0, city_id, 400)
                    ELSE IF ~Truthy(data)
                         THEN abort("create_place", "Place", 0, city_id, 400)
                         ELSE abort("create_place", "Place", 0, city_id, 404)

update_place(place_id, data) ==
    LET place == get("Place", place_id)
        ignored_keys == {"id", "city_id", "user_id", "created_at", "updated_at"}
    IN IF place # NoneObj /\ Truthy(data)
       THEN model_update("update_place", setattrs(place, data, ignored_keys), 0, 200)
       ELSE IF ~Truthy(data)
            THEN abort("update_place", "Place", place_id, 0, 400)
            ELSE abort("update_place", "Place", place_id, 0, 404)

\* list(dict.values()): the elements of a set in some order.
RECURSIVE SeqOf(_)
SeqOf(S) ==
    IF S = {} THEN <<>>
    ELSE LET x == CHOOSE y \in S : TRUE IN <<x>> \o SeqOf(S \ {x})

\* for city in cities: places.extend(city.places)
RECURSIVE PlacesOfCities(_, _)
PlacesOfCities(objs, cities) ==
    IF cities = <<>> THEN <<>>
    ELSE SeqOf({p.id : p \in City_places(objs, Head(cities).id)})
            \o PlacesOfCities(objs, Tail(cities))

\* for state_id in state_ids: the Places of the Cities of each State found.
RECURSIVE PlacesOfStates(_, _)
PlacesOfStates(objs, state_ids) ==
    IF state_ids = <<>> THEN <<>>
    ELSE LET state == get_in(objs, "State", Head(state_ids))
         IN (IF state # NoneObj
             THEN PlacesOfCities(objs, SeqOf(State_cities(objs, state.id)))
             ELSE <<>>)
               \o PlacesOfStates(objs, Tail(state_ids))

\* for city_id in city_ids: the Places of each City found whose State was
\* not listed.
RECURSIVE PlacesOfCityIds(_, _, _)
PlacesOfCityIds(objs, city_ids, state_ids) ==
    IF city_ids = <<>> THEN <<>>
    ELSE LET city == get_in(objs, "City", Head(city_ids))
         IN (IF city # NoneObj /\ city.state_id \notin Range(state_ids)
             THEN PlacesOfCities(objs, <<city>>)
             ELSE <<>>)
               \o PlacesOfCityIds(objs, Tail(city_ids), state_ids)

\* GET /cities/<city_id>/places: city.places of the City, or 404; nothing is
\* written.
get_places(city_id) ==
    LET city == get("City", city_id)
    IN IF city # NoneObj
       THEN /\ resp' = [Response("get_places", "City", city_id, 0, 200, "")
                           EXCEPT !.result =
                               SeqOf({p.id : p \in City_places(objects, city.id)})]
            /\ objects' = (IF storage_t = "db" THEN db ELSE objects)
            /\ conflict' = FALSE
            /\ UNCHANGED <<storage_t, file, db, threads>>
       ELSE abort("get_places", "City", city_id, 0, 404)

\* `city.state_id not in state_ids` is reached with state_ids never
\* assigned: the name is bound only in the branch of a non-empty states
\* list (UnboundLocalError).
UnboundStateIds(objs, data) ==
    /\ data.states = <<>>
    /\ \E i \in 1..Len(data.cities) :
          get_in(objs, "City", data.cities[i]) # NoneObj

\* The places gathered before the amenities filter.
SearchBase(objs, data) ==
    (IF data.states = <<>> /\ data.cities = <<>>
     THEN SeqOf({p.id : p \in Values(all_in(objs, "Place"))})
     ELSE <<>>)
       \o PlacesOfStates(objs, data.states)
       \o PlacesOfCityIds(objs, data.cities, data.states)

\* The amenities filter: the places whose amenity_ids holds every listed
\* id.
SearchFilter(objs, places, amenity_ids) ==
    IF amenity_ids = <<>> THEN places
    ELSE SelectSeq(places,
                   LAMBDA pid :
                       Range(amenity_ids) \subseteq
                           Range(get_in(objs, "Place", pid).amenity_ids))

\* The answer of a search; nothing is written.
SearchAnswer(data, code, err, places) ==
    /\ resp' = [Response("search_place", "Place", 0, 0, code, err)
                   EXCEPT !.query = data, !.result = places]
    /\ objects' = (IF storage_t = "db" THEN db ELSE objects)
    /\ conflict' = FALSE
    /\ UNCHANGED <<storage_t, file, db, threads>>

\* In the relational engine a Place has no amenity_ids of its own: reading
\* it either fails (AttributeError) or gives the class default, the empty
\* list.
search_place(data) ==
    IF ~data.json
    THEN SearchAnswer(data, 400, "", <<>>)
    ELSE IF UnboundStateIds(objects, data)
         THEN SearchAnswer(data, 500, "UnboundLocalError", <<>>)
         ELSE LET places == SearchBase(objects, data)
              IN \/ SearchAnswer(data, 200, "",
                                 SearchFilter(objects, places, data.amenities))
                 \/ /\ storage_t = "db"
                    /\ data.amenities # <<>>
                    /\ places # <<>>
                    /\ SearchAnswer(data, 500, "AttributeError", <<>>)

----------------------------------------------------------------------------
(* views/places_reviews.py *)

delete_review(review_id) ==
    LET review == get("Review", review_id)
    IN IF review # NoneObj
       THEN Commit("delete_review", "Review", review_id, 0, 200,
                   delete_in(objects, review), FALSE)
       ELSE abort("delete_review", "Review", review_id, 0, 404)

create_review(place_id, data, uuid) ==
    LET place == get("Place", place_id)
        user == IF Truthy(data) THEN get("User", data.user_id) ELSE NoneObj
    IN /\ Uuid("Review", data, uuid)
       /\ IF place # NoneObj /\ user # NoneObj /\ Truthy(data) /\ data.text # ""
          THEN model_save("create_review",
                          BaseModel_init("Review",
                                         [data EXCEPT !.place_id = place_id],
                                         uuid),
                          place_id, 201)
          ELSE IF Truthy(data) /\ data.text = ""
               THEN abort("create_review", "Review", 0, place_id, 400)
               ELSE IF Truthy(data) /\ data.user_id = 0
                    THEN abort("create_review", "Review", 0, place_id, 400)
                    ELSE IF ~Truthy(data)
                         THEN abort("create_review", "Review", 0, place_id, 400)
                         ELSE abort("create_review", "Review", 0, place_id, 404)

update_review(review_id, data) ==
    LET review == get("Review", review_id)
        ignored_keys == {"id", "created_at", "updated_at", "user_id", "place_id"}
    IN IF review # NoneObj /\ Truthy(data)
       THEN model_update("update_review", setattrs(review, data, ignored_keys), 0, 200)
       ELSE IF ~Truthy(data)
            THEN abort("update_review", "Review", review_id, 0, 400)
            ELSE abort("update_review", "Review", review_id, 0, 404)

----------------------------------------------------------------------------
(* views/places_amenities.py *)

\* place.amenities.append(amenity) / place.amenities = amenity
link(place, amenity) ==
    IF storage_t = "db"
    THEN [place EXCEPT !.amenities = Append(@, amenity.id)]
    ELSE [place EXCEPT !.amenity_ids = Append(@, amenity.id)]

\* place.amenities.remove(amenity) / place.amenity_ids.remove(amenity.id)
unlink(place, amenity) ==
    IF storage_t = "db"
    THEN [place EXCEPT !.amenities = ListRemove(@, amenity.id)]
    ELSE [place EXCEPT !.amenity_ids = ListRemove(@, amenity.id)]

\* list.remove raises ValueError when the element is not in the list.
RaisesValueError(place, amenity) ==
    IF storage_t = "db"
    THEN amenity.id \notin Range(place.amenities)
    ELSE amenity.id \notin Range(place.amenity_ids)

\* Mutant of delete_amenity_from_place: removing an absent element does not
\* raise, so the handler saves and answers 200.
delete_amenity_from_place_no_raise(place_id, amenity_id) ==
    LET place == get("Place", place_id)
        amenity == get("Amenity", amenity_id)
    IN IF place # NoneObj /\ amenity # NoneObj
       THEN model_update("delete_amenity_from_place",
                         [place EXCEPT !.amenities = ListWithout(@, amenity.id),
                                       !.amenity_ids = ListWithout(@, amenity.id)],
                         amenity_id, 200)
       ELSE abort("delete_amenity_from_place", "Place", place_id, amenity_id, 404)

delete_amenity_from_place(place_id, amenity_id) ==
    LET place == get("Place", place_id)
        amenity == get("Amenity", amenity_id)
    IN IF place # NoneObj /\ amenity # NoneObj
       THEN IF RaisesValueError(place, amenity)
            THEN abort("delete_amenity_from_place", "Place", place_id, amenity_id, 404)
            ELSE model_update("delete_amenity_from_place",
                              unlink(place, amenity), amenity_id, 200)
       ELSE abort("delete_amenity_from_place", "Place", place_id, amenity_id, 404)

\* Mutant of add_amenity_to_place: the `amenity not in place.amenities`
\* test is dropped.
add_amenity_to_place_unguarded(place_id, amenity_id) ==
    LET place == get("Place", place_id)
        amenity == get("Amenity", amenity_id)
    IN IF place # NoneObj /\ amenity # NoneObj
       THEN model_update("add_amenity_to_place",
                         link(place, amenity), amenity_id, 201)
       ELSE abort("add_amenity_to_place", "Place", place_id, amenity_id, 404)

add_amenity_to_place(place_id, amenity_id) ==
    LET place == get("Place", place_id)
        amenity == get("Amenity", amenity_id)
    IN IF /\ place # NoneObj
          /\ amenity # NoneObj
          /\ amenity.id \notin Place_amenities(objects, place)
       THEN model_update("add_amenity_to_place",
                         link(place, amenity), amenity_id, 201)
       ELSE IF place = NoneObj \/ amenity = NoneObj
            THEN abort("add_amenity_to_place", "Place", place_id, amenity_id, 404)
            ELSE abort("add_amenity_to_place", "Place", place_id, amenity_id, 200)

----------------------------------------------------------------------------
(* The request layer: one request at a time on a fresh store *)

Init ==
    /\ storage_t \in {"file", "db"}
    /\ objects = EmptyMap
    /\ file = NoFile
    /\ db = EmptyMap
    /\ conflict = FALSE
    /\ resp = Response("init", "", 0, 0, 0, "")
    /\ threads = [t \in Threads |-> Idle]

Next ==
    \/ \E data \in StateBodies, uuid \in StateIds : create_state(data, uuid)
    \/ \E id \in StateIds : delete_state(id)
    \/ \E id \in StateIds, data \in PutBodies("State", StateBodies) :
          update_state(id, data)
    \/ \E sid \in StateIds, data \in CityBodies, uuid \in CityIds :
          add_city(sid, data, uuid)
    \/ \E id \in CityIds : delete_city(id)
    \/ \E id \in CityIds, data \in PutBodies("City", CityBodies) :
          update_city(id, data)
    \/ \E data \in AmenityBodies, uuid \in AmenityIds : create_amenity(data, uuid)
    \/ \E id \in AmenityIds : delete_amenity(id)
    \/ \E id \in AmenityIds, data \in PutBodies("Amenity", AmenityBodies) :
          update_amenity(id, data)
    \/ \E data \in UserBodies, uuid \in UserIds : create_user(data, uuid)
    \/ \E id \in UserIds : delete_user(id)
    \/ \E id \in UserIds, data \in PutBodies("User", UserBodies) :
          update_user(id, data)
    \/ \E cid \in CityIds, data \in PlaceBodies, uuid \in PlaceIds :
          create_place(cid, data, uuid)
    \/ \E id \in PlaceIds : delete_place(id)
    \/ \E id \in PlaceIds, data \in PutBodies("Place", PlaceBodies) :
          update_place(id, data)
    \/ \E pid \in PlaceIds, data \in ReviewBodies, uuid \in ReviewIds :
          create_review(pid, data, uuid)
    \/ \E id \in ReviewIds : delete_review(id)
    \/ \E id \in ReviewIds, data \in PutBodies("Review", ReviewBodies) :
          update_review(id, data)
    \/ \E pid \in PlaceIds, aid \in AmenityIds : add_amenity_to_place(pid, aid)
    \/ \E pid \in PlaceIds, aid \in AmenityIds : delete_amenity_from_place(pid, aid)

Spec == Init /\ [][Next]_vars

----------------------------------------------------------------------------
(* The request layer with the search: a store is built, then searched *)

\* The lists of a search body: empty, an id that names nothing, stored ids,
\* and an id given twice.
StateLists ==
    {<<>>, <<OtherId>>} \cup {<<i>> : i \in StateIds}
        \cup {<<i, i>> : i \in StateIds}
CityLists ==
    {<<>>, <<OtherId>>} \cup {<<i>> : i \in CityIds}
        \cup {<<i, i>> : i \in CityIds}
        \cup {<<ij[1], ij[2]>> : ij \in {x \in CityIds \X CityIds : x[1] # x[2]}}
AmenityLists == {<<>>} \cup {<<i>> : i \in AmenityIds}

SearchBodies ==
    {NoQuery} \cup
    {[json |-> TRUE, states |-> s, cities |-> c, amenities |-> a] :
        s \in StateLists, c \in CityLists, a \in AmenityLists}

\* Bodies that the create handlers accept.
Named == {[EmptyBody EXCEPT !.name = n] : n \in Names}
Accounts ==
    {[EmptyBody EXCEPT !.email = m, !.password = w] : m \in Emails, w \in Passwords}
NamedBy(users) == {[b EXCEPT !.user_id = u] : b \in Named, u \in users}

NextSearch ==
    \/ \E data \in Named, uuid \in StateIds : create_state(data, uuid)
    \/ \E sid \in StateIds, data \in Named, uuid \in CityIds :
          add_city(sid, data, uuid)
    \/ \E data \in Named, uuid \in AmenityIds : create_amenity(data, uuid)
    \/ \E data \in Accounts, uuid \in UserIds : create_user(data, uuid)
    \/ \E cid \in CityIds, data \in NamedBy(UserIds), uuid \in PlaceIds :
          create_place(cid, data, uuid)
    \/ \E pid \in PlaceIds, aid \in AmenityIds : add_amenity_to_place(pid, aid)
    \/ \E data \in SearchBodies : search_place(data)
    \/ \E id \in PlaceIds : delete_place(id)
    \/ \E id \in CityIds : get_places(id)

SpecSearch == Init /\ [][NextSearch]_vars

----------------------------------------------------------------------------
(* The request layer as the server runs it: app.run(threaded=True) serves   *)
(* each request in a thread of its own, and no handler takes a lock.  A    *)
(* handler that reads and then writes is two steps of its thread: what it  *)
(* got from storage.get, then its writes and its answer.                   *)

\* The end of a request served by thread t: storage.save() on the mapping
\* objs2, the answer, the teardown.  stale: the commit of the relational
\* engine meets a row that another session has deleted or inserted.
ThreadCommit(t, op, cls, id, arg, code, objs2, stale) ==
    /\ IF storage_t = "db"
       THEN IF stale \/ ~DBValid(objs2)
            THEN /\ objects' = db
                 /\ UNCHANGED <<db, file>>
                 /\ resp' = Response(op, cls, id, arg, 500, "IntegrityError")
            ELSE /\ objects' = objs2
                 /\ db' = objs2
                 /\ UNCHANGED file
                 /\ resp' = Response(op, cls, id, arg, code, "")
       ELSE /\ objects' = objs2
            /\ file' = file_dump(objs2)
            /\ UNCHANGED db
            /\ resp' = Response(op, cls, id, arg, code, "")
    /\ threads' = [threads EXCEPT ![t] = Idle]
    /\ conflict' = FALSE
    /\ UNCHANGED storage_t

\* delete_amenity up to `if amenity:`.
begin_delete_amenity(t, amenity_id) ==
    LET amenity == get("Amenity", amenity_id)
    IN /\ threads[t].pc = "idle"
       /\ IF amenity # NoneObj
          THEN /\ threads' = [threads EXCEPT ![t] = [Idle EXCEPT !.pc = "delete",
                                                               !.amenity = amenity]]
               /\ UNCHANGED <<storage_t, objects, file, db, conflict, resp>>
          ELSE abort("delete_amenity", "Amenity", amenity_id, 0, 404)

\* delete_amenity from storage.delete(amenity) on.
finish_delete_amenity(t) ==
    LET amenity == threads[t].amenity
    IN /\ threads[t].pc = "delete"
       /\ ThreadCommit(t, "delete_amenity", "Amenity", amenity.id, 0, 200,
                       delete_in(objects, amenity),
                       KeyOf(amenity) \notin DOMAIN objects)

\* add_amenity_to_place up to the test of `amenity not in place.amenities`.
begin_add_amenity_to_place(t, place_id, amenity_id) ==
    LET place == get("Place", place_id)
        amenity == get("Amenity", amenity_id)
    IN /\ threads[t].pc = "idle"
       /\ IF /\ place # NoneObj
             /\ amenity # NoneObj
             /\ amenity.id \notin Place_amenities(objects, place)
          THEN /\ threads' = [threads EXCEPT ![t] = [pc |-> "link",
                                                     place |-> place,
                                                     amenity |-> amenity]]
               /\ UNCHANGED <<storage_t, objects, file, db, conflict, resp>>
          ELSE IF place = NoneObj \/ amenity = NoneObj
               THEN abort("add_amenity_to_place", "Place", place_id, amenity_id, 404)
               ELSE abort("add_amenity_to_place", "Place", place_id, amenity_id, 200)

\* add_amenity_to_place from the append on: the Place is the instance the
\* store holds.
finish_add_amenity_to_place(t) ==
    LET amenity == threads[t].amenity
        k == KeyOf(threads[t].place)
    IN /\ threads[t].pc = "link"
       /\ ThreadCommit(t, "add_amenity_to_place", "Place", threads[t].place.id,
                       amenity.id, 201,
                       [objects EXCEPT ![k] = link(@, amenity)],
                       amenity.id \in Range(objects[k].amenities))

NextThreads ==
    \/ \E data \in Named, uuid \in StateIds : create_state(data, uuid)
    \/ \E sid \in StateIds, data \in Named, uuid \in CityIds :
          add_city(sid, data, uuid)
    \/ \E data \in Named, uuid \in AmenityIds : create_amenity(data, uuid)
    \/ \E data \in Accounts, uuid \in UserIds : create_user(data, uuid)
    \/ \E cid \in CityIds, data \in NamedBy(UserIds), uuid \in PlaceIds :
          create_place(cid, data, uuid)
    \/ \E t \in Threads, aid \in AmenityIds : begin_delete_amenity(t, aid)
    \/ \E t \in Threads : finish_delete_amenity(t)
    \/ \E t \in Threads, pid \in PlaceIds, aid \in AmenityIds :
          begin_add_amenity_to_place(t, pid, aid)
    \/ \E t \in Threads : finish_add_amenity_to_place(t)

SpecThreads == Init /\ [][NextThreads]_vars

----------------------------------------------------------------------------
(* The storage facade called directly, as the engine tests call it *)

\* The entities a caller constructs: State(name=...), City(name=...,
\* state_id=...), User(email=..., password=...), ...
Entities ==
    {BaseModel_init("State", [EmptyBody EXCEPT !.id = i, !.name = n], 0) :
        i \in StateIds, n \in Names}
    \cup
    {BaseModel_init("City", [EmptyBody EXCEPT !.id = i, !.name = n, !.state_id = s], 0) :
        i \in CityIds, n \in Names, s \in StateIds}
    \cup
    {BaseModel_init("User", [EmptyBody EXCEPT !.id = i, !.email = m, !.password = w], 0) :
        i \in UserIds, m \in Emails, w \in Passwords}
    \cup
    {BaseModel_init("Place",
                    [EmptyBody EXCEPT !.id = i, !.name = n, !.city_id = c, !.user_id = u],
                    0) :
        i \in PlaceIds, n \in Names, c \in CityIds, u \in UserIds}
    \cup
    {BaseModel_init("Review",
                    [EmptyBody EXCEPT !.id = i, !.text = t, !.place_id = p, !.user_id = u],
                    0) :
        i \in ReviewIds, t \in Texts, p \in PlaceIds, u \in UserIds}
    \cup
    {BaseModel_init("Amenity", [EmptyBody EXCEPT !.id = i, !.name = n], 0) :
        i \in AmenityIds, n \in Names}

\* storage.new(obj)
new(e) ==
    /\ Cardinality(DOMAIN objects \cup {KeyOf(e)}) <= MaxEngineObjs
    /\ IF storage_t = "db" /\ KeyOf(e) \in DOMAIN objects /\ objects[KeyOf(e)] # e
       THEN /\ conflict' = TRUE
            /\ UNCHANGED objects
       ELSE /\ objects' = new_in(objects, e)
            /\ UNCHANGED conflict
    /\ resp' = Response("new", e.cls, e.id, 0, 0, "")
    /\ UNCHANGED <<storage_t, file, db, threads>>

\* storage.save(): the snapshot is rewritten / the session is committed; a
\* commit that breaks a constraint is rolled back.
save ==
    /\ IF storage_t = "db"
       THEN IF conflict \/ ~DBValid(objects)
            THEN /\ objects' = db
                 /\ UNCHANGED <<db, file>>
                 /\ resp' = Response("save", "", 0, 0, 0, "IntegrityError")
            ELSE /\ db' = objects
                 /\ UNCHANGED <<objects, file>>
                 /\ resp' = Response("save", "", 0, 0, 0, "")
       ELSE /\ file' = file_dump(objects)
            /\ UNCHANGED <<objects, db>>
            /\ resp' = Response("save", "", 0, 0, 0, "")
    /\ conflict' = FALSE
    /\ UNCHANGED <<storage_t, threads>>

\* Mutant of reload: the snapshot is read over the mapping, which is not
\* cleared first.
reload_merge ==
    /\ objects' = (IF storage_t = "db" THEN objects ELSE file_load(file) @@ objects)
    /\ resp' = Response("reload", "", 0, 0, 0, "")
    /\ UNCHANGED <<storage_t, file, db, conflict, threads>>

\* storage.reload(): the file engine replaces its mapping by the snapshot;
\* the relational engine keeps its session.
reload ==
    /\ objects' = (IF storage_t = "db" THEN objects ELSE file_load(file))
    /\ resp' = Response("reload", "", 0, 0, 0, "")
    /\ UNCHANGED <<storage_t, file, db, conflict, threads>>

\* Mutant of delete: the session accepts any instance.
delete_unchecked(e) ==
    /\ objects' = delete_in(objects, e)
    /\ resp' = Response("delete", e.cls, e.id, 0, 0, "")
    /\ UNCHANGED <<storage_t, file, db, conflict, threads>>

\* storage.delete(obj): the relational engine refuses an instance that was
\* never staged or persisted; an instance already marked deleted is left.
delete(e) ==
    /\ IF storage_t = "db" /\ ~(KeyOf(e) \in DOMAIN objects /\ objects[KeyOf(e)] = e)
       THEN /\ resp' = Response("delete", e.cls, e.id, 0, 0,
                                IF KeyOf(e) \in DOMAIN db /\ db[KeyOf(e)] = e
                                THEN "" ELSE "InvalidRequestError")
            /\ UNCHANGED objects
       ELSE /\ objects' = delete_in(objects, e)
            /\ resp' = Response("delete", e.cls, e.id, 0, 0, "")
    /\ UNCHANGED <<storage_t, file, db, conflict, threads>>

\* Mutant of close: releasing what is already released is an error.
close_once ==
    /\ objects' = (IF storage_t = "db" THEN db ELSE objects)
    /\ conflict' = FALSE
    /\ resp' = Response("close", "", 0, 0, 0,
                        IF resp.op \in {"init", "close"} THEN "Error" ELSE "")
    /\ UNCHANGED <<storage_t, file, db, threads>>

\* storage.close(): the session is released; what was not committed is gone.
close ==
    /\ objects' = (IF storage_t = "db" THEN db ELSE objects)
    /\ conflict' = FALSE
    /\ resp' = Response("close", "", 0, 0, 0, "")
    /\ UNCHANGED <<storage_t, file, db, threads>>

\* A new process on the same snapshot: the mapping starts empty and
\* storage.reload() fills it.
restart ==
    /\ objects' = (IF storage_t = "db" THEN db ELSE file_load(file))
    /\ conflict' = FALSE
    /\ resp' = Response("restart", "", 0, 0, 0, "")
    /\ UNCHANGED <<storage_t, file, db, threads>>

NextEngine ==
    \/ \E e \in Entities : new(e)
    \/ save
    \/ reload
    \/ \E e \in Entities : delete(e)
    \/ close
    \/ restart

SpecEngine == Init /\ [][NextEngine]_vars

----------------------------------------------------------------------------
(* Properties *)

\* Two entities are equal iff they have the same type and id.
Equal(x, y) == x.cls = y.cls /\ x.id = y.id

\* What a new process would read back: the snapshot or the committed rows.
Persisted == IF storage_t = "db" THEN db ELSE file_load(file)

\* A State's Cities, their Places and the Reviews of those Places.
OwnedBy(objs, state_id) ==
    LET cities == {c \in Values(objs) : c.cls = "City" /\ c.state_id = state_id}
        places == {p \in Values(objs) :
                     p.cls = "Place" /\ \E c \in cities : p.city_id = c.id}
        reviews == {r \in Values(objs) :
                      r.cls = "Review" /\ \E p \in places : r.place_id = p.id}
    IN cities \cup places \cup reviews

\* C1: after delete_state answers 200 for State s, exactly s, its Cities,
\* their Places and the Reviews of those Places are gone from the store and
\* nothing else is; no City of s is returned by get and count(City) has
\* dropped by the number of those Cities.  Stated for both engines.
C1_DeleteStateStep ==
    \A s \in StateIds :
        (delete_state(s) /\ resp'.code = 200) =>
            LET owned == OwnedBy(objects, s)
                gone == {KeyOf(x) : x \in owned} \cup {MakeKey("State", s)}
                cities == {c \in owned : c.cls = "City"}
            IN /\ objects' = Restrict(objects, DOMAIN objects \ gone)
               /\ Persisted' = objects'
               /\ \A c \in cities : get_in(objects', "City", c.id) = NoneObj
               /\ count_in(objects', "City") = count("City") - Cardinality(cities)
C1_DeleteStateCascades == [][C1_DeleteStateStep]_vars

Entries(objs, cls) == Cardinality({e \in Values(objs) : e.cls = cls})

\* An entity is stored when the store holds it under its composite key.
Stored(e) == KeyOf(e) \in DOMAIN objects /\ objects[KeyOf(e)] = e

\* save() went through and left every count as it was, in memory and in
\* what is persisted.
SaveKeepsCounts ==
    (save /\ resp'.err = "") =>
        \A cls \in classes :
            /\ count_in(objects', cls) = count(cls)
            /\ count_in(Persisted', cls) = count(cls)

\* C3 (as stated): for every entity E, new(E) raises count(type(E)) by
\* exactly 1 and delete(E) lowers it by exactly 1, the save() that follows
\* keeps the counts, and count(type) is the number of entries of all(type).
C3_Original_Step ==
    /\ \A e \in Entities :
         /\ new(e) => count_in(objects', e.cls) = count(e.cls) + 1
         /\ delete(e) => count_in(objects', e.cls) = count(e.cls) - 1
    /\ SaveKeepsCounts
    /\ \A cls \in classes : count_in(objects', cls) = Entries(objects', cls)
C3_Step ==
    /\ \A e \in Entities :
         /\ (new(e) /\ KeyOf(e) \notin DOMAIN objects) =>
               /\ count_in(objects', e.cls) = count(e.cls) + 1
               /\ \A cls \in classes \ {e.cls} :
                     count_in(objects', cls) = count(cls)
         /\ (delete(e) /\ Stored(e)) =>
               /\ resp'.err = ""
               /\ count_in(objects', e.cls) = count(e.cls) - 1
    /\ SaveKeepsCounts
    /\ \A cls \in classes : count_in(objects', cls) = Entries(objects', cls)
Links(place) ==
    IF storage_t = "db" THEN place.amenities ELSE place.amenity_ids

Occurrences(s, x) == Cardinality({i \in 1..Len(s) : s[i] = x})

\* C4: a link request for an existing Place and an existing Amenity leaves
\* the Amenity exactly once in the Place's amenity set; when the pair was
\* not linked it answers 201, when it was linked it answers 200 and changes
\* nothing in memory or in what is persisted.
C4_Step ==
    \A p \in PlaceIds, a \in AmenityIds :
        LET place == get("Place", p)
            amenity == get("Amenity", a)
            after == get_in(objects', "Place", p)
            linked == a \in Place_amenities(objects, place)
        IN (add_amenity_to_place(p, a) /\ place # NoneObj /\ amenity # NoneObj) =>
              /\ after # NoneObj
              /\ Occurrences(Links(after), a) = 1
              /\ a \in Place_amenities(objects', after)
              /\ linked => /\ resp'.code = 200
                           /\ UNCHANGED <<objects, file, db>>
              /\ ~linked => resp'.code = 201
C4_LinkIdempotent == [][C4_Step]_vars

\* C4 witness: a second link request for a linked pair has answered 200 and
\* the Place names the Amenity once.
C4_Witness ==
    /\ resp.op = "add_amenity_to_place"
    /\ resp.code = 200
    /\ get("Place", resp.id) # NoneObj
    /\ get("Amenity", resp.arg) # NoneObj
    /\ Occurrences(Links(get("Place", resp.id)), resp.arg) = 1

\* C5: an unlink request for an existing Place and an existing Amenity that
\* are not linked answers 404 and changes nothing: the Place's links, the
\* store in memory, the snapshot and the committed rows stay as they were,
\* in both engines.
C5_Step ==
    \A p \in PlaceIds, a \in AmenityIds :
        LET place == get("Place", p)
            amenity == get("Amenity", a)
        IN (/\ delete_amenity_from_place(p, a)
            /\ place # NoneObj
            /\ amenity # NoneObj
            /\ a \notin Range(Links(place))) =>
              /\ resp'.code = 404
              /\ get_in(objects', "Place", p) = place
              /\ UNCHANGED <<objects, file, db>>
C5_UnlinkNotLinked == [][C5_Step]_vars

\* C5 witness: an unlink request has answered 404 although the Place and
\* the Amenity it names are both stored, the pair not being linked.
C5_Witness ==
    /\ resp.op = "delete_amenity_from_place"
    /\ resp.code = 404
    /\ get("Place", resp.id) # NoneObj
    /\ get("Amenity", resp.arg) # NoneObj
    /\ resp.arg \notin Range(Links(get("Place", resp.id)))

\* C6: a delete_amenity request answering 200 removes the Amenity and leaves
\* no Place whose amenity set or amenity-id list names it, and every Place
\* stays stored; a delete_place request answering 200 removes the Place and
\* leaves every Amenity as it was.  Stated for both engines.
C6_Step ==
    /\ \A a \in AmenityIds :
         (delete_amenity(a) /\ resp'.code = 200) =>
            /\ get_in(objects', "Amenity", a) = NoneObj
            /\ DOMAIN all_in(objects', "Place") = DOMAIN all("Place")
            /\ \A pl \in Values(all_in(objects', "Place")) :
                  /\ a \notin Range(pl.amenities)
                  /\ a \notin Range(pl.amenity_ids)
            /\ \A pl \in Values(all_in(Persisted', "Place")) :
                  /\ a \notin Range(pl.amenities)
                  /\ a \notin Range(pl.amenity_ids)
    /\ \A p \in PlaceIds :
         (delete_place(p) /\ resp'.code = 200) =>
            /\ get_in(objects', "Place", p) = NoneObj
            /\ all_in(objects', "Amenity") = all("Amenity")
C6_AmenityLinkNoCascade == [][C6_Step]_vars

\* Every foreign key of every entity of objs names an entity of objs.
ForeignKeysResolve(objs) ==
    \A e \in Values(objs) :
        /\ e.cls = "City" => get_in(objs, "State", e.state_id) # NoneObj
        /\ e.cls = "Place" =>
             /\ get_in(objs, "City", e.city_id) # NoneObj
             /\ get_in(objs, "User", e.user_id) # NoneObj
        /\ e.cls = "Review" =>
             /\ get_in(objs, "Place", e.place_id) # NoneObj
             /\ get_in(objs, "User", e.user_id) # NoneObj

\* C7: after every completed request every stored City names a stored
\* State, every stored Place a stored City and a stored User, and every
\* stored Review a stored Place and a stored User, in memory and in what is
\* persisted, in either engine.
C7_NoDanglingForeignKey ==
    /\ ForeignKeysResolve(objects)
    /\ ForeignKeysResolve(Persisted)

\* C8: in the file engine save() leaves the mapping as it is and writes a
\* snapshot from which it is rebuilt, and clearing the memory and reloading
\* right after a save() (a reload, or a new process) yields the mapping that
\* was there before the save(): same keys, same field values, for an empty
\* and for a non-empty store.
C8_Step ==
    storage_t = "file" =>
        /\ save => /\ UNCHANGED objects
                   /\ file_load(file') = objects
                   /\ DOMAIN file'.json = DOMAIN objects
        /\ (resp.op = "save" /\ (reload \/ restart)) => objects' = objects
C9_Step ==
    \A e \in Entities :
        (/\ storage_t = "db"
         /\ delete(e)
         /\ ~Stored(e)
         /\ ~(KeyOf(e) \in DOMAIN db /\ db[KeyOf(e)] = e)) =>
            /\ resp'.err = "InvalidRequestError"
            /\ UNCHANGED <<objects, db>>
            /\ \A cls \in classes : count_in(objects', cls) = count(cls)
C9_DeleteNotAdded == [][C9_Step]_vars

\* C9 witness: a delete has failed in the relational engine while entities
\* are stored and committed.
C9_Witness ==
    /\ storage_t = "db"
    /\ resp.op = "delete"
    /\ resp.err = "InvalidRequestError"
    /\ objects # EmptyMap
    /\ db = objects

\* Every key of objs is "<TypeName>.<id>" with the type name and the id of
\* the entity it maps to.
KeysMatch(objs) ==
    \A k \in DOMAIN objs :
        /\ Len(k) = 3
        /\ k[2] = "."
        /\ KeyClass(k) \in classes
        /\ KeyClass(k) = objs[k].cls
        /\ KeyId(k) = objs[k].id

\* C10: in every state every entry of all() has the key "<TypeName>.<id>" of
\* the entity it maps to, all(T) is exactly the entries of all() under a key
\* of type T, and new(E) leaves all(T) alone for every type T other than
\* E's.
C10_Step ==
    /\ KeysMatch(all_in(objects', ""))
    /\ KeysMatch(Persisted')
    /\ \A T \in classes :
         LET every == all_in(objects', "")
         IN all_in(objects', T) =
               Restrict(every, {k \in DOMAIN every : KeyClass(k) = T})
    /\ \A e \in Entities :
         new(e) => \A T \in classes \ {e.cls} : all_in(objects', T) = all(T)
C10_AllKeys == [][C10_Step]_vars

\* C10 witness: an entity was staged while an entity of another type is
\* stored, and all(T) of its type has that one entry.
C10_Witness ==
    /\ resp.op = "new"
    /\ DOMAIN all(resp.cls) = {MakeKey(resp.cls, resp.id)}
    /\ \E k \in DOMAIN all("") : KeyClass(k) # resp.cls

\* The operations that answer a PUT request.
UpdateOps ==
    {"update_state", "update_city", "update_amenity", "update_user",
     "update_place", "update_review"}

\* The protected keys of x and y have the same values.
SameProtected(x, y) ==
    /\ x.cls = y.cls
    /\ x.id = y.id
    /\ x.created_at = y.created_at
    /\ x.cls = "User" => x.email = y.email
    /\ x.cls = "City" => x.state_id = y.state_id
    /\ x.cls = "Place" => x.city_id = y.city_id /\ x.user_id = y.user_id
    /\ x.cls = "Review" => x.place_id = y.place_id /\ x.user_id = y.user_id

\* C11: a step that answers a PUT request leaves every stored entity
\* stored under the same key with the same id, created_at and, by type,
\* email, state_id, city_id, user_id and place_id, in memory and in what is
\* persisted, whatever the body carries; no entity appears or disappears.
C11_Step ==
    resp'.op \in UpdateOps =>
        /\ DOMAIN objects' = DOMAIN objects
        /\ DOMAIN Persisted' = DOMAIN Persisted
        /\ \A k \in DOMAIN objects : SameProtected(objects[k], objects'[k])
        /\ \A k \in DOMAIN Persisted : SameProtected(Persisted[k], Persisted'[k])
C11_ProtectedKeys == [][C11_Step]_vars

\* C11 witness: a PUT on a User has been answered 200 and has changed the
\* password, and the User still has the id, created_at and email it was
\* created with.
C11_Witness ==
    /\ resp.op = "update_user"
    /\ resp.code = 200
    /\ LET user == get("User", resp.id)
       IN /\ user # NoneObj
          /\ user.password = md5(CHOOSE w \in Passwords : TRUE)
          /\ user.created_at = Now
          /\ user.email \in Emails

\* C12: close() never fails, whatever was called before it (nothing at all,
\* or close itself), it leaves the saved entities as they are, and a close()
\* that follows a close() changes nothing, so what is called next behaves as
\* after a single close().
C12_Step ==
    close =>
        /\ resp'.err = ""
        /\ UNCHANGED <<file, db>>
        /\ Persisted' = Persisted
        /\ resp.op = "close" => UNCHANGED <<objects, conflict>>
        /\ resp.op = "init" => objects' = EmptyMap
C12_CloseIdempotent == [][C12_Step]_vars

\* C12 witness: close() has returned without error while saved entities
\* exist, and the store holds exactly them.
C12_Witness ==
    /\ resp.op = "close"
    /\ resp.err = ""
    /\ Persisted # EmptyMap
    /\ storage_t = "db" => objects = Persisted

\* C13: in the file engine every reload() succeeds, leaves the snapshot as
\* it is and makes the mapping exactly the content of the last saved
\* snapshot (empty when there is none): an entity staged but not saved is
\* absent, an entity deleted but not saved is back, and a reload() that
\* follows a reload() changes nothing.
C13_Step ==
    (storage_t = "file" /\ reload) =>
        /\ resp'.err = ""
        /\ UNCHANGED file
        /\ objects' = Persisted
        /\ ~file.exists => objects' = EmptyMap
        /\ \A k \in DOMAIN objects \ DOMAIN Persisted : k \notin DOMAIN objects'
        /\ \A k \in DOMAIN Persisted \ DOMAIN objects : k \in DOMAIN objects'
        /\ resp.op = "reload" => UNCHANGED objects
C13_ReloadReplaces == [][C13_Step]_vars

\* C13 witness: the file engine has reloaded a snapshot that holds
\* entities.
C13_Witness ==
    /\ storage_t = "file"
    /\ resp.op = "reload"
    /\ file.exists
    /\ objects # EmptyMap
    /\ objects = Persisted

\* The ids of the Places of City city_id, and of the Cities of State
\* state_id.
PlaceIdsOfCity(city_id) == {p.id : p \in City_places(objects, city_id)}
PlaceIdsOfState(state_id) ==
    UNION {PlaceIdsOfCity(c.id) : c \in State_cities(objects, state_id)}

\* The Places a search is asked for through its states and cities lists.
Listed(q) ==
    UNION {PlaceIdsOfState(sid) :
             sid \in {x \in Range(q.states) : get("State", x) # NoneObj}}
      \cup
    UNION {PlaceIdsOfCity(cid) :
             cid \in {x \in Range(q.cities) : get("City", x) # NoneObj}}

\* C14: a search whose JSON body has a non-empty states list or a non-empty
\* cities list is answered 200 with every Place of every City of every
\* listed stored State and every Place of every listed stored City, also
\* when only cities is given.
C14_SearchStatesCities ==
    (/\ resp.op = "search_place"
     /\ resp.query.json
     /\ resp.query.amenities = <<>>
     /\ resp.query.states # <<>> \/ resp.query.cities # <<>>) =>
        /\ resp.code = 200
        /\ Listed(resp.query) \subseteq Range(resp.result)

\* All Places when neither states nor cities is given, else the Places
\* asked for.
Base(q) ==
    IF q.states = <<>> /\ q.cities = <<>>
    THEN {p.id : p \in Values(all("Place"))}
    ELSE Listed(q)

\* C15: a search with a JSON body and neither states nor cities returns all
\* Places when amenities is empty too, and a search with a non-empty
\* amenities list returns exactly the Places of the base result that are
\* linked to every listed Amenity id.
C15_SearchAmenities ==
    (resp.op = "search_place" /\ resp.query.json) =>
        LET q == resp.query
        IN /\ (q.states = <<>> /\ q.cities = <<>> /\ q.amenities = <<>>) =>
                 /\ resp.code = 200
                 /\ Range(resp.result) = {p.id : p \in Values(all("Place"))}
           /\ q.amenities # <<>> =>
                 /\ resp.code = 200
                 /\ Range(resp.result) =
                       {pid \in Base(q) :
                           Range(q.amenities) \subseteq
                               Range(Links(get("Place", pid)))}

\* C16: a PUT request whose id names no stored object of the type is
\* answered 404 and leaves the store, the snapshot and the committed rows as
\* they were, whatever the body is.
C16_Step ==
    (resp'.op \in UpdateOps /\ get(resp'.cls, resp'.id) = NoneObj) =>
        /\ resp'.code = 404
        /\ UNCHANGED <<objects, file, db>>
C16_UpdateNotFound == [][C16_Step]_vars

\* The POST handlers that create under a parent named in the URL, with the
\* class of the parent and the foreign key that names it.
CreateUnderOps == {"add_city", "create_place", "create_review"}
ParentClass(op) ==
    CASE op = "add_city" -> "State"
      [] op = "create_place" -> "City"
      [] op = "create_review" -> "Place"
ParentKey(op, e) ==
    CASE op = "add_city" -> e.state_id
      [] op = "create_place" -> e.city_id
      [] op = "create_review" -> e.place_id

\* C17: a POST for a City, Place or Review that answers 201 has stored one
\* entity of that type and touched no other; the parent named in the URL
\* existed, the entity's foreign key is the id of the URL, its name (text for
\* a Review) is not empty and, for a Place or a Review, its user_id names a
\* User that existed.  Every other answer is 400 or 404, or 500 from the
\* relational engine for an id that is taken, and leaves the store, the
\* snapshot and the committed rows as they were.
C17_Step ==
    resp'.op \in CreateUnderOps =>
        LET k == MakeKey(resp'.cls, resp'.id)
        IN /\ resp'.code \in {201, 400, 404, 500}
           /\ resp'.code = 500 => storage_t = "db" /\ k \in DOMAIN objects
           /\ resp'.code # 201 => UNCHANGED <<objects, file, db>>
           /\ resp'.code = 201 =>
                 /\ DOMAIN objects' = DOMAIN objects \cup {k}
                 /\ \A j \in DOMAIN objects \ {k} : objects'[j] = objects[j]
                 /\ Persisted' = objects'
                 /\ LET e == objects'[k]
                    IN /\ e.cls \in {"City", "Place", "Review"}
                       /\ get(ParentClass(resp'.op), resp'.arg) # NoneObj
                       /\ ParentKey(resp'.op, e) = resp'.arg
                       /\ (IF e.cls = "Review" THEN e.text ELSE e.name) # ""
                       /\ e.cls \in {"Place", "Review"} =>
                             get("User", e.user_id) # NoneObj
DeleteOps ==
    {"delete_state", "delete_city", "delete_amenity", "delete_user",
     "delete_place", "delete_review"}

\* C18: a DELETE on an id with no stored object of the type is answered 404
\* and leaves the store as it was; a DELETE on a stored object is answered
\* 200 and the object is gone from memory and from what is persisted; and
\* while no object of the type has the id, every PUT or DELETE on it is
\* answered 404.
C18_Step ==
    LET absent == get(resp'.cls, resp'.id) = NoneObj
    IN /\ resp'.op \in DeleteOps =>
             /\ absent => /\ resp'.code = 404
                          /\ UNCHANGED <<objects, file, db>>
             /\ ~absent => /\ resp'.code = 200
                           /\ get_in(objects', resp'.cls, resp'.id) = NoneObj
                           /\ get_in(Persisted', resp'.cls, resp'.id) = NoneObj
       /\ (resp'.op \in DeleteOps \cup UpdateOps /\ absent) => resp'.code = 404
C18_DeleteThenNotFound == [][C18_Step]_vars

\* The threads that are between what they read and what they write.
InFlight == {t \in Threads : threads[t].pc # "idle"}

\* C19: at most one request is in flight at any time, and when a request
\* writes, what it read still holds: the Amenity that delete_amenity got is
\* still stored, and the Amenity that add_amenity_to_place found not linked
\* to the Place is still not linked to it.
C19_Step ==
    /\ Cardinality(InFlight') <= 1
    /\ \A t \in Threads :
         /\ finish_delete_amenity(t) =>
               get("Amenity", threads[t].amenity.id) # NoneObj
         /\ finish_add_amenity_to_place(t) =>
               threads[t].amenity.id \notin
                   Range(Links(get("Place", threads[t].place.id)))
C19_RequestsSerialized == [][C19_Step]_vars

\* C20: in the file engine GET /cities/<id>/places answers 404 exactly when
\* no City has the id, and otherwise lists, once each, exactly the stored
\* Places whose city_id is the City's id as the store is at that moment;
\* the read leaves the store and the snapshot as they were.
C20_Step ==
    (storage_t = "file" /\ resp'.op = "get_places") =>
        LET mine == {p \in Values(objects) :
                        p.cls = "Place" /\ p.city_id = resp'.id}
        IN /\ UNCHANGED <<objects, file, db>>
           /\ resp'.code = (IF get("City", resp'.id) = NoneObj THEN 404 ELSE 200)
           /\ resp'.code = 200 =>
                 /\ Range(resp'.result) = {p.id : p \in mine}
                 /\ Len(resp'.result) = Cardinality(mine)
C20_CityPlaces == [][C20_Step]_vars

\* C20 witness: the Places of a City have been read in the file engine, the
\* list is not empty and another City is stored.
C20_Witness ==
    /\ storage_t = "file"
    /\ resp.op = "get_places"
    /\ resp.code = 200
    /\ resp.result # <<>>
    /\ \E c \in Values(all("City")) : c.id # resp.id

\* The sequence holds no element twice.
NoRepeat(seq) == Cardinality(Range(seq)) = Len(seq)

\* C21: the result of a search that is answered 200 holds no Place twice,
\* whatever the states and cities lists are: a City listed together with
\* its State, and a State id or City id given twice, contribute the Places
\* once.
C21_SearchNoDuplicates ==
    (resp.op = "search_place" /\ resp.code = 200) => NoRepeat(resp.result)

\* The six POST handlers that create an entity.
CreateOps ==
    {"create_state", "add_city", "create_amenity", "create_user",
     "create_place", "create_review"}

\* C22: a POST create that is answered 201 adds exactly one entry to
\* all(type) and leaves every entry stored before as it was, also when the
\* body carries the id of a stored entity; no two stored entities of a type
\* share an id.
C22_Step ==
    (resp'.op \in CreateOps /\ resp'.code = 201) =>
        /\ Cardinality(DOMAIN all_in(objects', resp'.cls)) =
              Cardinality(DOMAIN all_in(objects, resp'.cls)) + 1
        /\ \A k \in DOMAIN objects :
              k \in DOMAIN objects' /\ objects'[k] = objects[k]
        /\ \A e1, e2 \in Values(objects') :
              (e1.cls = e2.cls /\ e1.id = e2.id) => e1 = e2
C22_CreateNeverReplaces == [][C22_Step]_vars

====
